---- MODULE Spec2Model ----
(***************************************************************************)
(* Order lifecycle of the Kitchen Queue Management backend.                *)
(*                                                                         *)
(* State: the orders, order_status_history and chef_activity_logs tables,  *)
(* the websocket messages handed to the manager, the wall clock, and the   *)
(* request handlers in flight.  Every handler is an async function: it     *)
(* loads rows into its own session (a snapshot), works on that snapshot    *)
(* and writes it back at db.commit().  Handlers of different requests      *)
(* interleave at those awaits, so a handler that passes validation is      *)
(* modelled in two steps: load+validate, then commit+refresh+publish.      *)
(* inflight holds the handlers between the two steps, each with its        *)
(* snapshot; two handlers with the same actor, request, snapshot and       *)
(* clock reading are one element of it.                                    *)
(*                                                                         *)
(* The websocket manager keeps two registries of connections, by order id  *)
(* and by restaurant id.  A broadcast copies the list of its key and sends *)
(* to the connections one after the other; every send is an await, so the  *)
(* publisher is modelled one send per step, and sending holds the          *)
(* publishers that are between two sends.                                  *)
(*                                                                         *)
(* Spec is the service with no websocket client; SpecWS is the service     *)
(* with websocket clients that come and go, lifecycle requests served one  *)
(* at a time and commits that may fail; SpecMenu is the service with a     *)
(* menu whose prices are edited while orders are placed and worked on;     *)
(* SpecWSFair is SpecWS with the handlers of the websocket endpoints run   *)
(* whenever they can; SpecPub is the service with subscribers of an order  *)
(* and transitions requested while earlier ones are still publishing.      *)
(***************************************************************************)
EXTENDS Integers, Sequences, FiniteSets, TLC

(* ------------------------------ bounds --------------------------------- *)
MaxOrders   == 1       \* orders that can be placed
MaxHistory  == 5       \* rows of order_status_history
MaxClock    == 3       \* from this reading on, the clock readings tie
MaxInFlight == 2       \* handlers that are between their load and their commit

(* ------------------------ the world of the model ----------------------- *)
NULL == 0                       \* a NULL column (ids and times start at 1)
Restaurants == {1, 2}           \* rows of restaurants
Chefs == {1, 2, 3}              \* rows of chefs
ChefRestaurant == (1 :> 1) @@ (2 :> 1) @@ (3 :> 2)   \* Chef.restaurant_id
Customers == {"alice", "bob"}   \* User.name of the customers
MenuItemIds == {1, 2, 3}        \* rows of menu_items
MenuPrice == (1 :> 5) @@ (2 :> 7) @@ (3 :> 9)        \* MenuItem.price at start-up
\* MenuItem.category_id -> MenuCategory.restaurant_id: the kitchen of an item
MenuRestaurant == (1 :> 1) @@ (2 :> 1) @@ (3 :> 2)
\* MenuItem.name, letter by letter (lower case)
MenuName == (1 :> << "t", "e", "a" >>) @@ (2 :> << "p", "i", "e" >>)
            @@ (3 :> << "n", "a", "n" >>)
\* request parameters: order ids (one more than can exist), restaurant ids
\* (one that does not exist, NULL for "not given"), item lists
OrderIdInputs == 1..(MaxOrders + 1)
RestaurantInputs == {1, NULL, 9}
Placers == {"alice"}
\* an item of a request: item_id (NULL: not given), item_name (<< >>: not
\* given), quantity
Item(id, name, qty) == [item_id |-> id, item_name |-> name, quantity |-> qty]
ItemInputs == { << >>,
                << Item(1, << >>, 2), Item(2, << >>, 1) >>,
                << Item(8, << >>, 1) >> }

(* models/order.py: OrderStatus *)
OrderStatus == {"pending", "accepted", "cooking", "ready",
                "completed", "canceled", "rejected"}

\* websocket connections, and the keys they subscribe to
WebSockets == {"w1", "w2"}
OrderKeys == {1}
RestaurantKeys == {1, 2}

VARIABLES orders, history, activity, events, clock, inflight, resp,
          order_clients, chef_clients, conn, delivered, sending, menu_items

\* the websocket side: the two registries of the manager, the connections
\* (conn[w].since: how many broadcasts had been made when w registered),
\* what each connection received (the index in events of the broadcast),
\* and the publishers in progress
hub == <<order_clients, chef_clients, conn, delivered, sending>>

vars == <<orders, history, activity, events, clock, inflight, resp,
          order_clients, chef_clients, conn, delivered, sending, menu_items>>

(* -------------------- order_service.py: the table ---------------------- *)
\* the table with a stage that can be skipped: cooking may go to completed
ALLOWED_TRANSITIONS_skip ==
    [s \in OrderStatus |->
        CASE s = "pending"  -> {"accepted", "canceled", "rejected"}
          [] s = "accepted" -> {"cooking", "canceled"}
          [] s = "cooking"  -> {"ready", "canceled", "completed"}
          [] s = "ready"    -> {"completed"}
          [] OTHER          -> {}]

\* the table with a completed order that can still be canceled
ALLOWED_TRANSITIONS_cancel_completed ==
    [s \in OrderStatus |->
        CASE s = "pending"  -> {"accepted", "canceled", "rejected"}
          [] s = "accepted" -> {"cooking", "canceled"}
          [] s = "cooking"  -> {"ready", "canceled"}
          [] s = "ready"    -> {"completed"}
          [] s = "completed" -> {"canceled"}
          [] OTHER          -> {}]

ALLOWED_TRANSITIONS ==
    [s \in OrderStatus |->
        CASE s = "pending"  -> {"accepted", "canceled", "rejected"}
          [] s = "accepted" -> {"cooking", "canceled"}
          [] s = "cooking"  -> {"ready", "canceled"}
          [] s = "ready"    -> {"completed"}
          [] OTHER          -> {}]

can_transition(old, new) == new \in ALLOWED_TRANSITIONS[old]

(* --------------------------- small helpers ----------------------------- *)
Exists(oid) == oid \in 1..Len(orders)

\* the rows of order_status_history of one order, in insertion order
HistoryOf(oid) == SelectSeq(history, LAMBDA h : h.order_id = oid)

\* Order.status_history: the rows of one order, order_by timestamp asc
\* (rows with equal timestamps stay in insertion order)
RECURSIVE InsertByTime(_, _)
InsertByTime(e, seq) ==
    IF seq = << >> THEN << e >>
    ELSE IF Head(seq).timestamp <= e.timestamp
         THEN << Head(seq) >> \o InsertByTime(e, Tail(seq))
         ELSE << e >> \o seq

RECURSIVE SortByTime(_)
SortByTime(seq) ==
    IF seq = << >> THEN << >>
    ELSE InsertByTime(seq[Len(seq)], SortByTime(SubSeq(seq, 1, Len(seq) - 1)))

status_history(oid) == SortByTime(HistoryOf(oid))

\* the response of the step just taken: "ok" for a handler that returned its
\* order, the error of a handler that raised or returned an error, "none"
\* when the step is a handler suspending at an await
Failures == {"400", "403", "404", "AttributeError", "input", "not_found", "cannot_cancel"}

\* datetime.now(): the value read is clock, and the next reading is later,
\* until MaxClock; from then on the readings are equal
Tick == clock' = IF clock < MaxClock THEN clock + 1 ELSE clock

\* Column(onupdate=datetime.now()): the call is evaluated once, when the
\* module is imported, so the default is the start-up time
IMPORT_TIME == 1

\* what the session's flush writes for one attribute: a value equal to the
\* loaded one is not part of the UPDATE, the row keeps what it holds
Flush(row, snap, attr, val) == IF val = snap[attr] THEN row[attr] ELSE val

Init ==
    /\ orders = << >>
    /\ history = << >>
    /\ activity = << >>
    /\ events = << >>
    /\ clock = 1
    /\ inflight = {}
    /\ resp = "none"
    /\ order_clients = << >>
    /\ chef_clients = << >>
    /\ conn = [w \in WebSockets |->
                 [state |-> "new", scope |-> "none", key |-> NULL, since |-> 0]]
    /\ delivered = [w \in WebSockets |-> << >>]
    /\ sending = {}
    /\ menu_items = [i \in MenuItemIds |-> [price |-> MenuPrice[i]]]

(* --------------------- websocket/events.py ----------------------------- *)
\* one call of broadcast_order / broadcast_to_restaurant
Broadcast(scope, key, msg) == [scope |-> scope, key |-> key, msg |-> msg]

\* push_new_order telling the subscribers of the order as well
push_new_order_and_order(order) ==
    LET msg == [event |-> "new_order", order_id |-> order.id,
                restaurant_id |-> order.restaurant_id, status |-> order.status]
    IN << Broadcast("restaurant", order.restaurant_id, msg),
          Broadcast("order", order.id, msg) >>

push_new_order(order) ==
    << Broadcast("restaurant", order.restaurant_id,
                 [event |-> "new_order", order_id |-> order.id,
                  restaurant_id |-> order.restaurant_id, status |-> order.status]) >>

push_status_update(order) ==
    LET msg == [event |-> "order_status_update", order_id |-> order.id,
                restaurant_id |-> NULL, status |-> order.status]
    IN << Broadcast("order", order.id, msg),
          Broadcast("restaurant", order.restaurant_id, msg) >>

\* push_order_canceled telling the order's subscribers only
push_order_canceled_order_only(order) ==
    LET msg == [event |-> "order_canceled", order_id |-> order.id,
                restaurant_id |-> NULL, status |-> "absent"]
    IN << Broadcast("order", order.id, msg) >>

push_order_canceled(order) ==
    LET msg == [event |-> "order_canceled", order_id |-> order.id,
                restaurant_id |-> NULL, status |-> "absent"]
    IN << Broadcast("order", order.id, msg),
          Broadcast("restaurant", order.restaurant_id, msg) >>

(* --------------------- websocket/manager.py ---------------------------- *)
\* one registry for both scopes: every broadcast looks in order_clients
Registry_single(scope) == order_clients

\* self.order_clients / self.chef_clients, by the scope of a broadcast
Registry(scope) == IF scope = "order" THEN order_clients ELSE chef_clients

\* clients.get(key, []): the list of a key, empty for a key that is no key
\* of the dict
Get(clients, key) == IF key \in DOMAIN clients THEN clients[key] ELSE << >>

\* clients.setdefault(key, []).append(ws)
Register(clients, key, ws) ==
    [k \in DOMAIN clients \cup {key} |->
        IF k = key THEN Append(Get(clients, key), ws) ELSE clients[k]]

\* list.remove(ws): the list without the first ws
RECURSIVE Remove(_, _)
Remove(list, ws) ==
    IF list = << >> THEN << >>
    ELSE IF Head(list) = ws THEN Tail(list)
    ELSE << Head(list) >> \o Remove(Tail(list), ws)

IsIn(list, ws) == \E i \in 1..Len(list) : list[i] = ws

\* disconnect_order / disconnect_chef_restaurant:
\* clients.get(key, []).remove(ws).  list.remove raises ValueError when ws is
\* not in the list; the list of a key that is no key of the dict is a fresh
\* empty list
disconnect(clients, key, ws) ==
    IF ~IsIn(Get(clients, key), ws)
    THEN [raised |-> "ValueError", clients |-> clients]
    ELSE [raised |-> "none",
          clients |-> [clients EXCEPT ![key] = Remove(clients[key], ws)]]

disconnect_order(key, ws) == disconnect(order_clients, key, ws)

disconnect_chef_restaurant(key, ws) == disconnect(chef_clients, key, ws)

\* a publisher runs without suspending up to its next send: it enters the
\* broadcasts of calls one after the other, copies the list of the key
\* (list(clients.get(key, []))) and stops at the first list that has a
\* connection.  begun: the broadcasts entered; todo: the copied list of the
\* last of them; rest: the broadcasts still to make
RECURSIVE Start(_)
Start(calls) ==
    IF calls = << >> THEN [begun |-> << >>, todo |-> << >>, rest |-> << >>]
    ELSE LET c == Head(calls)
             list == Get(Registry(c.scope), c.key)
         IN IF list = << >>
            THEN LET r == Start(Tail(calls))
                 IN [r EXCEPT !.begun = << c >> \o @]
            ELSE [begun |-> << c >>, todo |-> list, rest |-> Tail(calls)]

\* a handler that has committed publishes its event (calls: what push_* of
\* events.py broadcasts) and returns when the last send is done
Publish(calls, op, oid, target) ==
    LET r == Start(calls)
    IN /\ events' = events \o r.begun
       /\ IF r.todo = << >>
          THEN /\ sending' = sending
               /\ resp' = "ok"
          ELSE /\ sending' = sending \cup
                      {[op |-> op, oid |-> oid, target |-> target,
                        elen |-> Len(events), idx |-> Len(events) + Len(r.begun),
                        todo |-> r.todo, rest |-> r.rest]}
               /\ resp' = "none"

\* await ws.send_json(message), the next send of publisher t: the publisher
\* may have been suspended at this await since it copied the list.  A
\* connection whose client is gone raises, and nothing in the manager or in
\* events.py catches it: the broadcast, the push and the handler end with the
\* error.  After the send the publisher runs on up to its next send
send_json(t) ==
    /\ t \in sending
    /\ LET ws == Head(t.todo)
       IN IF conn[ws].state # "open"
          THEN /\ sending' = sending \ {t}
               /\ resp' = "SendError"
               /\ UNCHANGED <<events, delivered>>
          ELSE /\ delivered' = [delivered EXCEPT ![ws] = Append(@, t.idx)]
               /\ IF Tail(t.todo) # << >>
                  THEN /\ sending' = (sending \ {t}) \cup
                                        {[t EXCEPT !.todo = Tail(t.todo)]}
                       /\ resp' = "none"
                       /\ UNCHANGED events
                  ELSE LET r == Start(t.rest)
                       IN /\ events' = events \o r.begun
                          /\ IF r.todo = << >>
                             THEN /\ sending' = sending \ {t}
                                  /\ resp' = "ok"
                             ELSE /\ sending' = (sending \ {t}) \cup
                                        {[t EXCEPT !.todo = r.todo, !.rest = r.rest,
                                                   !.idx = Len(events) + Len(r.begun)]}
                                  /\ resp' = "none"
    /\ UNCHANGED <<orders, history, activity, clock, inflight,
                   order_clients, chef_clients, conn, menu_items>>

(* ------------- api/v1/endpoints/websocket_endpoints.py ----------------- *)
\* connect_order handing the last broadcast of the key to the newcomer
connect_order_replay(key, ws) ==
    /\ conn[ws].state = "new"
    /\ order_clients' = Register(order_clients, key, ws)
    /\ conn' = [conn EXCEPT ![ws] = [state |-> "open", scope |-> "order",
                                     key |-> key, since |-> Len(events)]]
    /\ delivered' = [delivered EXCEPT ![ws] =
           LET past == {i \in 1..Len(events) :
                           events[i].scope = "order" /\ events[i].key = key}
           IN IF past = {} THEN @
              ELSE Append(@, CHOOSE i \in past : \A j \in past : j <= i)]
    /\ resp' = "none"
    /\ UNCHANGED <<orders, history, activity, events, clock, inflight,
                   chef_clients, sending, menu_items>>

\* ws_order, line 9: connect_order accepts the connection and registers it
connect_order(key, ws) ==
    /\ conn[ws].state = "new"
    /\ order_clients' = Register(order_clients, key, ws)
    /\ conn' = [conn EXCEPT ![ws] = [state |-> "open", scope |-> "order",
                                     key |-> key, since |-> Len(events)]]
    /\ resp' = "none"
    /\ UNCHANGED <<orders, history, activity, events, clock, inflight,
                   chef_clients, delivered, sending, menu_items>>

\* ws_chef_orders, line 19
connect_chef_restaurant(key, ws) ==
    /\ conn[ws].state = "new"
    /\ chef_clients' = Register(chef_clients, key, ws)
    /\ conn' = [conn EXCEPT ![ws] = [state |-> "open", scope |-> "restaurant",
                                     key |-> key, since |-> Len(events)]]
    /\ resp' = "none"
    /\ UNCHANGED <<orders, history, activity, events, clock, inflight,
                   order_clients, delivered, sending, menu_items>>

\* the client of a connection goes away; its handler, waiting in
\* receive_text(), has not run yet
client_disconnects(ws) ==
    /\ conn[ws].state = "open"
    /\ conn' = [conn EXCEPT ![ws].state = "dead"]
    /\ resp' = "none"
    /\ UNCHANGED <<orders, history, activity, events, clock, inflight,
                   order_clients, chef_clients, delivered, sending, menu_items>>

\* a handler that ends on WebSocketDisconnect without unregistering
ws_order_leaving_registered(ws) ==
    /\ conn[ws].state = "dead"
    /\ conn[ws].scope = "order"
    /\ conn' = [conn EXCEPT ![ws].state = "gone"]
    /\ resp' = "none"
    /\ UNCHANGED <<orders, history, activity, events, clock, inflight,
                   order_clients, chef_clients, delivered, sending, menu_items>>

\* ws_order, lines 13-14: receive_text() raises WebSocketDisconnect and the
\* handler unregisters the connection
ws_order(ws) ==
    /\ conn[ws].state = "dead"
    /\ conn[ws].scope = "order"
    /\ LET r == disconnect_order(conn[ws].key, ws)
       IN /\ order_clients' = r.clients
          /\ resp' = r.raised
    /\ conn' = [conn EXCEPT ![ws].state = "gone"]
    /\ UNCHANGED <<orders, history, activity, events, clock, inflight,
                   chef_clients, delivered, sending, menu_items>>

\* ws_chef_orders, lines 23-24
ws_chef_orders(ws) ==
    /\ conn[ws].state = "dead"
    /\ conn[ws].scope = "restaurant"
    /\ LET r == disconnect_chef_restaurant(conn[ws].key, ws)
       IN /\ chef_clients' = r.clients
          /\ resp' = r.raised
    /\ conn' = [conn EXCEPT ![ws].state = "gone"]
    /\ UNCHANGED <<orders, history, activity, events, clock, inflight,
                   order_clients, delivered, sending, menu_items>>

(* ------------- order_service.py: create_customer_order ----------------- *)
\* MenuItem.name.ilike("%pattern%") on lower-case names: pattern occurs in name
Contains(name, pattern) ==
    \E i \in 0..(Len(name) - Len(pattern)) :
        SubSeq(name, i + 1, i + Len(pattern)) = pattern

\* lines 107-114: the items of kitchen rid whose name matches
ByName(rid, pattern) ==
    {m \in MenuItemIds : Contains(MenuName[m], pattern) /\ MenuRestaurant[m] = rid}

\* lines 97-124, one item of the request: an item given by id is looked up
\* among all menu items (lines 87-92 select by id alone), an item given by
\* name among the items of the kitchen (scalar_one_or_none raises when more
\* than one matches)
ResolveItem(rid, item) ==
    IF item.item_id # NULL
    THEN IF item.item_id \notin MenuItemIds
         THEN [err |-> "input", item_id |-> NULL]     \* "Menu item ... not found"
         ELSE [err |-> "ok", item_id |-> item.item_id]
    ELSE IF item.item_name # << >>
    THEN LET found == ByName(rid, item.item_name)
         IN IF found = {}
            THEN [err |-> "input", item_id |-> NULL]  \* "... not found in this restaurant"
            ELSE IF Cardinality(found) > 1
            THEN [err |-> "MultipleResultsFound", item_id |-> NULL]
            ELSE [err |-> "ok", item_id |-> CHOOSE m \in found : TRUE]
    ELSE [err |-> "input", item_id |-> NULL]          \* "Each item must include ..."

\* the loop of lines 97-124: the answer of the first item that fails
RECURSIVE ItemsError(_, _)
ItemsError(rid, items) ==
    IF items = << >> THEN "ok"
    ELSE IF ResolveItem(rid, Head(items)).err # "ok"
         THEN ResolveItem(rid, Head(items)).err
         ELSE ItemsError(rid, Tail(items))

\* lines 120-121: the items with the id found for a name filled in
Resolved(rid, items) ==
    [i \in 1..Len(items) |->
        [items[i] EXCEPT !.item_id = ResolveItem(rid, items[i]).item_id]]

\* lines 131-137: total_amount
RECURSIVE SumLines(_)
SumLines(items) ==
    IF items = << >> THEN 0
    ELSE menu_items[Head(items).item_id].price * Head(items).quantity
         + SumLines(Tail(items))

\* lines 139-147: the OrderItem rows
OrderItems(items) ==
    [i \in 1..Len(items) |->
        [menu_item_id |-> items[i].item_id, quantity |-> items[i].quantity,
         unit_price |-> menu_items[items[i].item_id].price,
         total_price |-> menu_items[items[i].item_id].price * items[i].quantity]]

\* lines 60-124: what the validation answers
PlacementError(rid, items) ==
    IF rid # NULL /\ rid \notin Restaurants THEN "404"
    ELSE IF rid = NULL THEN "input"          \* "You must provide restaurant_id ..."
    ELSE IF items = << >> THEN "input"       \* "Order must contain at least one item"
    ELSE ItemsError(rid, items)

\* create_customer_order committing the order without its history entry
create_customer_order_no_history(cust, rid, items) ==
    /\ LET err == PlacementError(rid, items)
           id == Len(orders) + 1
           order == [id |-> id, restaurant_id |-> rid, customer_name |-> cust,
                     status |-> "pending",
                     total_amount |-> SumLines(Resolved(rid, items)),
                     created_at |-> clock, updated_at |-> clock,
                     accepted_at |-> NULL, cooking_at |-> NULL,
                     ready_at |-> NULL, completed_at |-> NULL,
                     assigned_chef_id |-> NULL,
                     items |-> OrderItems(Resolved(rid, items))]
       IN IF err # "ok"
          THEN /\ resp' = err
               /\ UNCHANGED <<orders, history, activity, events, clock, inflight, hub, menu_items>>
          ELSE /\ Len(orders) < MaxOrders
               /\ orders' = Append(orders, order)
               /\ history' = history
               /\ Publish(push_new_order(order), "create", id, "pending")
               /\ Tick
               /\ UNCHANGED <<activity, inflight,
                              order_clients, chef_clients, conn, delivered,
                         menu_items>>

create_customer_order(cust, rid, items) ==
    /\ LET err == PlacementError(rid, items)
           id == Len(orders) + 1
           order == [id |-> id, restaurant_id |-> rid, customer_name |-> cust,
                     status |-> "pending",
                     total_amount |-> SumLines(Resolved(rid, items)),
                     created_at |-> clock, updated_at |-> clock,
                     accepted_at |-> NULL, cooking_at |-> NULL,
                     ready_at |-> NULL, completed_at |-> NULL,
                     assigned_chef_id |-> NULL,
                     items |-> OrderItems(Resolved(rid, items))]
       IN IF err # "ok"
          THEN /\ resp' = err
               /\ UNCHANGED <<orders, history, activity, events, clock, inflight, hub, menu_items>>
          ELSE /\ Len(orders) < MaxOrders
               /\ orders' = Append(orders, order)
               /\ history' = Append(history,
                      [order_id |-> id, previous_status |-> "none",
                       new_status |-> "pending", timestamp |-> clock,
                       changed_by_chef_id |-> NULL])
               /\ Publish(push_new_order(order), "create", id, "pending")
               /\ Tick
               /\ UNCHANGED <<activity, inflight,
                              order_clients, chef_clients, conn, delivered,
                         menu_items>>

(* ------------------- menu_service.py: update_item ---------------------- *)
\* update_item rewriting the lines of the placed orders at the new price
update_item_repricing(item_id, price) ==
    /\ IF item_id \notin MenuItemIds
       THEN /\ resp' = "not_found"
            /\ UNCHANGED <<menu_items, orders>>
       ELSE /\ menu_items' = [menu_items EXCEPT ![item_id].price =
                                 IF price # NULL THEN price ELSE @]
            /\ orders' = [o \in 1..Len(orders) |->
                   [orders[o] EXCEPT !.items =
                       [i \in 1..Len(orders[o].items) |->
                           IF orders[o].items[i].menu_item_id = item_id /\ price # NULL
                           THEN [orders[o].items[i] EXCEPT !.unit_price = price]
                           ELSE orders[o].items[i]]]]
            /\ resp' = "ok"
    /\ UNCHANGED <<history, activity, events, clock, inflight, hub>>

\* lines 172-197: an item that is not found answers None (the endpoint's
\* 404); a payload without a price leaves the price
update_item(item_id, price) ==
    /\ IF item_id \notin MenuItemIds
       THEN /\ resp' = "not_found"
            /\ UNCHANGED menu_items
       ELSE /\ menu_items' = [menu_items EXCEPT ![item_id].price =
                                 IF price # NULL THEN price ELSE @]
            /\ resp' = "ok"
    /\ UNCHANGED <<orders, history, activity, events, clock, inflight, hub>>

(* ----------------- order_service.py: change_status --------------------- *)
\* change_status without the restaurant ownership check of line 315
change_status_response_any_kitchen(chef, oid, new_status) ==
    IF ~Exists(oid) THEN "404"
    ELSE IF ~can_transition(orders[oid].status, new_status) THEN "400"
    ELSE "ok"

\* lines 307-323: what the validation answers ("ok": nothing is raised)
change_status_response(chef, oid, new_status) ==
    IF ~Exists(oid) THEN "404"
    ELSE IF orders[oid].restaurant_id # ChefRestaurant[chef] THEN "403"
    ELSE IF ~can_transition(orders[oid].status, new_status) THEN "400"
    ELSE "ok"

\* lines 319-323: the HTTPException of an illegal transition; its detail is
\* the f-string, here the pieces of text it is made of
illegal_transition(old_status, new_status) ==
    [status_code |-> "400",
     detail |-> << "Cannot change status from ", old_status, " to ", new_status >>]

\* change_status taking ownership before it validates the transition
change_status_load_early_write(chef, oid, new_status) ==
    LET r == change_status_response(chef, oid, new_status)
    IN IF r # "ok"
       THEN /\ resp' = r
            /\ orders' = IF r = "400"
                         THEN [orders EXCEPT ![oid].assigned_chef_id = chef]
                         ELSE orders
            /\ UNCHANGED <<history, activity, events, clock, inflight, hub, menu_items>>
       ELSE /\ Cardinality(inflight) < MaxInFlight
            /\ Len(history) + Cardinality(inflight) < MaxHistory
            /\ inflight' = inflight \cup
                   {[op |-> "change_status", chef |-> chef, customer |-> "none",
                     oid |-> oid, target |-> new_status, snap |-> orders[oid],
                     now |-> clock, hlen |-> Len(HistoryOf(oid))]}
            /\ Tick
            /\ resp' = "none"
            /\ UNCHANGED <<orders, history, activity, events, hub, menu_items>>

\* lines 307-325: load the order, validate, read the clock
change_status_load(chef, oid, new_status) ==
    LET r == change_status_response(chef, oid, new_status)
    IN IF r # "ok"
       THEN /\ resp' = r
            /\ UNCHANGED <<orders, history, activity, events, clock, inflight, hub, menu_items>>
       ELSE /\ Cardinality(inflight) < MaxInFlight
            /\ Len(history) + Cardinality(inflight) < MaxHistory
            /\ inflight' = inflight \cup
                   {[op |-> "change_status", chef |-> chef, customer |-> "none",
                     oid |-> oid, target |-> new_status, snap |-> orders[oid],
                     now |-> clock, hlen |-> Len(HistoryOf(oid))]}
            /\ Tick
            /\ resp' = "none"
            /\ UNCHANGED <<orders, history, activity, events, hub, menu_items>>

\* timestamp_map stamping completed_at when an order gets ready
timestamp_map_ready_completed ==
    [s \in {"accepted", "cooking", "ready", "completed"} |->
        CASE s = "accepted" -> "accepted_at"
          [] s = "cooking"  -> "cooking_at"
          [] s = "ready"    -> "completed_at"
          [] s = "completed" -> "completed_at"]

\* timestamp_map without the entry of cooking
timestamp_map_without_cooking ==
    [s \in {"accepted", "ready", "completed"} |->
        CASE s = "accepted" -> "accepted_at"
          [] s = "ready"    -> "ready_at"
          [] s = "completed" -> "completed_at"]

\* the column a target status stamps (timestamp_map)
timestamp_map == [s \in {"accepted", "cooking", "ready", "completed"} |->
                    CASE s = "accepted" -> "accepted_at"
                      [] s = "cooking"  -> "cooking_at"
                      [] s = "ready"    -> "ready_at"
                      [] s = "completed" -> "completed_at"]

\* lines 334-359: write the session's changes, refresh, publish
change_status_commit(l) ==
    /\ l \in inflight
    /\ l.op = "change_status"
    /\ LET
           row == orders[l.oid]
           stamped == IF l.target \in DOMAIN timestamp_map
                      THEN [row EXCEPT ![timestamp_map[l.target]] =
                                Flush(row, l.snap, timestamp_map[l.target], l.now)]
                      ELSE row
           written == [stamped EXCEPT
                         !.status = Flush(row, l.snap, "status", l.target),
                         !.assigned_chef_id = Flush(row, l.snap, "assigned_chef_id", l.chef),
                         !.updated_at = IF l.now = l.snap.updated_at
                                        THEN IMPORT_TIME ELSE l.now]
       IN /\ orders' = [orders EXCEPT ![l.oid] = written]
          /\ history' = Append(history,
                 [order_id |-> l.oid, previous_status |-> l.snap.status,
                  new_status |-> l.target, timestamp |-> l.now,
                  changed_by_chef_id |-> l.chef])
          /\ Publish(IF l.target = "canceled"
                     THEN push_order_canceled(written)
                     ELSE push_status_update(written),
                     "change_status", l.oid, l.target)
          /\ inflight' = inflight \ {l}
          /\ UNCHANGED <<activity, clock,
                         order_clients, chef_clients, conn, delivered,
                         menu_items>>

\* change_status publishing its event although the commit failed
change_status_commit_fails_publishing(l) ==
    /\ l \in inflight
    /\ l.op = "change_status"
    /\ inflight' = inflight \ {l}
    /\ events' = events \o push_status_update([l.snap EXCEPT !.status = l.target])
    /\ resp' = "CommitError"
    /\ UNCHANGED <<orders, history, activity, clock, hub, menu_items>>

\* line 351: db.commit() raises (the database is gone, the transaction is
\* refused).  Nothing in change_status catches it: the exception leaves the
\* handler, lines 352-359 are not run and the session's changes are dropped
\* with the session
change_status_commit_fails(l) ==
    /\ l \in inflight
    /\ l.op = "change_status"
    /\ inflight' = inflight \ {l}
    /\ resp' = "CommitError"
    /\ UNCHANGED <<orders, history, activity, events, clock, hub, menu_items>>

(* ------------ order_service.py: cancel_order_by_customer --------------- *)
\* a list of cancellable states that has cooking as well
allowed_with_cooking == {"pending", "accepted", "cooking"}

\* line 379: the states a customer may cancel in
allowed == {"pending", "accepted"}

\* lines 367-382: what the checks answer
cancel_order_by_customer_response(cust, oid) ==
    IF ~(Exists(oid) /\ orders[oid].customer_name = cust) THEN "not_found"
    ELSE IF orders[oid].status \notin allowed THEN "cannot_cancel"
    ELSE "ok"

\* lines 367-386: load the customer's order, check the state, read the clock
cancel_order_by_customer_load(cust, oid) ==
    LET r == cancel_order_by_customer_response(cust, oid)
    IN IF r # "ok"
       THEN /\ resp' = r
            /\ UNCHANGED <<orders, history, activity, events, clock, inflight, hub, menu_items>>
       ELSE /\ Cardinality(inflight) < MaxInFlight
            /\ inflight' = inflight \cup
                   {[op |-> "customer_cancel", chef |-> NULL, customer |-> cust,
                     oid |-> oid, target |-> "canceled", snap |-> orders[oid],
                     now |-> clock, hlen |-> Len(HistoryOf(oid))]}
            /\ Tick
            /\ resp' = "none"
            /\ UNCHANGED <<orders, history, activity, events, hub, menu_items>>

\* lines 385-391: write status and updated_at, refresh, return
cancel_order_by_customer_commit(l) ==
    /\ l \in inflight
    /\ l.op = "customer_cancel"
    /\ LET
           row == orders[l.oid]
           written == [row EXCEPT
                         !.status = Flush(row, l.snap, "status", "canceled"),
                         !.updated_at = IF l.now = l.snap.updated_at
                                        THEN IMPORT_TIME ELSE l.now]
       IN /\ orders' = [orders EXCEPT ![l.oid] = written]
          /\ resp' = "ok"
          /\ inflight' = inflight \ {l}
          /\ UNCHANGED <<history, activity, events, clock, hub, menu_items>>

(* ---------------- chef_order_services.py: worker operations ------------ *)
\* lines 15-31: the loader every worker operation calls.  It selects the
\* order's item rows joined with the menu and returns
\* result.mappings().all(): a Python list of row mappings, not an Order
get_order_items_with_name(oid) ==
    [type |-> "list",
     rows |-> IF Exists(oid) THEN orders[oid].items ELSE << >>]

\* Python attribute lookup: a list has none of the attributes of Order
HasAttr(obj, name) == obj.type = "Order"

_ensure_status(order, allowed_statuses) ==
    IF ~HasAttr(order, "status") THEN "AttributeError"
    ELSE IF order.status \notin allowed_statuses THEN "400"
    ELSE "ok"

_set_status_fields(order, new_status) ==
    LET stamped == IF new_status \in DOMAIN timestamp_map
                   THEN [order EXCEPT ![timestamp_map[new_status]] = clock]
                   ELSE order
    IN [stamped EXCEPT !.status = new_status]

_log_action(order, chef, action) ==
    Append(activity, [restaurant_id |-> order.restaurant_id, chef_id |-> chef,
                      order_id |-> order.id, action |-> action, details |-> NULL])

\* the response of a worker operation that raised
WorkerRaise(code) ==
    /\ resp' = code
    /\ UNCHANGED <<orders, history, activity, events, clock, inflight, hub, menu_items>>

\* the response of a worker operation that committed
WorkerReturn ==
    /\ resp' = "ok"
    /\ UNCHANGED <<history, events, inflight, hub, menu_items>>

\* lines 112-129 (order.chef_id is no column of Order: nothing is stored)
_change_status_and_log(order, chef, new_status, action) ==
    /\ orders' = [orders EXCEPT ![order.id] = _set_status_fields(order, new_status)]
    /\ activity' = _log_action(order, chef, action)
    /\ Tick
    /\ WorkerReturn

accept_order(chef, oid) ==
    /\ LET order == get_order_items_with_name(oid)
           r == _ensure_status(order, {"pending"})
       IN IF r # "ok" THEN WorkerRaise(r)
          ELSE _change_status_and_log(order, chef, "accepted", "accept")

start_cooking(chef, oid) ==
    /\ LET order == get_order_items_with_name(oid)
           r == _ensure_status(order, {"accepted"})
       IN IF r # "ok" THEN WorkerRaise(r)
          ELSE _change_status_and_log(order, chef, "cooking", "start_cooking")

mark_ready(chef, oid) ==
    /\ LET order == get_order_items_with_name(oid)
           r == _ensure_status(order, {"cooking"})
       IN IF r # "ok" THEN WorkerRaise(r)
          ELSE _change_status_and_log(order, chef, "ready", "mark_ready")

complete_order(chef, oid) ==
    /\ LET order == get_order_items_with_name(oid)
           r == _ensure_status(order, {"ready"})
       IN IF r # "ok" THEN WorkerRaise(r)
          ELSE _change_status_and_log(order, chef, "completed", "complete")

\* lines 235-241: what cancel_order's own check answers
cancel_order_response(order) ==
    IF ~HasAttr(order, "status") THEN "AttributeError"
    ELSE IF order.status \in {"completed", "canceled", "rejected"} THEN "400"
    ELSE "ok"

cancel_order(chef, oid) ==
    /\ LET order == get_order_items_with_name(oid)
           r == cancel_order_response(order)
       IN IF r # "ok" THEN WorkerRaise(r)
          ELSE /\ orders' = [orders EXCEPT ![order.id].status = "canceled"]
               /\ activity' = _log_action(order, chef, "cancel")
               /\ UNCHANGED clock
               /\ WorkerReturn

reject_order(chef, oid) ==
    /\ LET order == get_order_items_with_name(oid)
           r == _ensure_status(order, {"pending"})
       IN IF r # "ok" THEN WorkerRaise(r)
          ELSE /\ orders' = [orders EXCEPT ![order.id].status = "rejected"]
               /\ activity' = _log_action(order, chef, "reject")
               /\ UNCHANGED clock
               /\ WorkerReturn

\* an assign that takes the order into work: it sets the holder and accepts
assign_order_accepting(chef, oid) ==
    IF ~Exists(oid) THEN WorkerRaise("404")
    ELSE /\ orders' = [orders EXCEPT ![oid].assigned_chef_id = chef,
                                      ![oid].status = "accepted"]
         /\ UNCHANGED <<activity, clock>>
         /\ WorkerReturn

\* lines 270-282
assign_order(chef, oid) ==
    /\ LET order == get_order_items_with_name(oid)
       IN IF ~HasAttr(order, "assigned_chef_id")
          THEN WorkerRaise("AttributeError")
          ELSE IF order.assigned_chef_id # NULL /\ order.assigned_chef_id # chef
          THEN WorkerRaise("400")
          ELSE /\ orders' = [orders EXCEPT ![order.id].assigned_chef_id = chef]
               /\ UNCHANGED <<activity, clock>>
               /\ WorkerReturn

unassign_order(chef, oid) ==
    /\ LET order == get_order_items_with_name(oid)
       IN IF ~HasAttr(order, "assigned_chef_id")
          THEN WorkerRaise("AttributeError")
          ELSE IF order.assigned_chef_id # chef
          THEN WorkerRaise("403")
          ELSE /\ orders' = [orders EXCEPT ![order.id].assigned_chef_id = NULL]
               /\ UNCHANGED <<activity, clock>>
               /\ WorkerReturn

(* ------------------------------ the system ----------------------------- *)
Next ==
    \/ \E cust \in Placers, rid \in RestaurantInputs, items \in ItemInputs :
          create_customer_order(cust, rid, items)
    \/ \E chef \in Chefs, oid \in OrderIdInputs, s \in OrderStatus :
          change_status_load(chef, oid, s)
    \/ \E l \in inflight : change_status_commit(l)
    \/ \E cust \in Customers, oid \in OrderIdInputs :
          cancel_order_by_customer_load(cust, oid)
    \/ \E l \in inflight : cancel_order_by_customer_commit(l)
    \/ \E chef \in Chefs, oid \in OrderIdInputs : accept_order(chef, oid)
    \/ \E chef \in Chefs, oid \in OrderIdInputs : start_cooking(chef, oid)
    \/ \E chef \in Chefs, oid \in OrderIdInputs : mark_ready(chef, oid)
    \/ \E chef \in Chefs, oid \in OrderIdInputs : complete_order(chef, oid)
    \/ \E chef \in Chefs, oid \in OrderIdInputs : cancel_order(chef, oid)
    \/ \E chef \in Chefs, oid \in OrderIdInputs : reject_order(chef, oid)
    \/ \E chef \in Chefs, oid \in OrderIdInputs : assign_order(chef, oid)
    \/ \E chef \in Chefs, oid \in OrderIdInputs : unassign_order(chef, oid)

Spec == Init /\ [][Next]_vars

\* the transitions asked for while websocket clients are around
PublishingChefs == {1}
PublishedTargets == {"accepted", "canceled"}

\* no lifecycle request is being served
Idle == inflight = {} /\ sending = {}

\* the service with websocket clients: the lifecycle requests come one at a
\* time, a commit may fail, the clients connect, go away and are unregistered
\* at any moment
NextWS ==
    \/ \E cust \in Placers, rid \in Restaurants \cap RestaurantInputs, items \in ItemInputs :
          Idle /\ create_customer_order(cust, rid, items)
    \/ \E chef \in PublishingChefs, oid \in OrderKeys, s \in PublishedTargets :
          Idle /\ change_status_load(chef, oid, s)
    \/ \E l \in inflight : change_status_commit(l)
    \/ \E l \in inflight : change_status_commit_fails(l)
    \/ \E t \in sending : send_json(t)
    \/ \E key \in OrderKeys, ws \in WebSockets : connect_order(key, ws)
    \/ \E key \in RestaurantKeys, ws \in WebSockets : connect_chef_restaurant(key, ws)
    \/ \E ws \in WebSockets : client_disconnects(ws)
    \/ \E ws \in WebSockets : ws_order(ws)
    \/ \E ws \in WebSockets : ws_chef_orders(ws)

SpecWS == Init /\ [][NextWS]_vars

\* each connection has its own handler task, suspended in receive_text()
\* (websocket_endpoints.py:11-12, 21-22); when the client goes away the await
\* raises WebSocketDisconnect and the event loop resumes the task, which runs
\* to its end without another await: a handler that can run does run
SpecWSFair ==
    /\ SpecWS
    /\ \A ws \in WebSockets : WF_vars(ws_order(ws)) /\ WF_vars(ws_chef_orders(ws))

\* what customers and the menu's admin send while the menu is being edited:
\* items of the other kitchen by id and by name, a name that one item of the
\* kitchen matches, a name that two match, an item with neither id nor name
ItemInputsMenu ==
    ItemInputs \cup
        { << Item(3, << >>, 1) >>,
          << Item(NULL, << "n", "a", "n" >>, 1) >>,
          << Item(1, << >>, 1), Item(NULL, << "t", "e", "a" >>, 2) >>,
          << Item(NULL, << "e" >>, 1) >>,
          << Item(NULL, << >>, 1) >> }
MenuItemInputs == {1, 3, 8}
PriceInputs == {NULL, 6}

\* the service with a menu that is edited while orders are placed and worked
\* on by a worker of kitchen 1, one lifecycle request at a time
NextMenu ==
    \/ \E cust \in Placers, rid \in RestaurantInputs, items \in ItemInputsMenu :
          create_customer_order(cust, rid, items)
    \/ \E item_id \in MenuItemInputs, price \in PriceInputs : update_item(item_id, price)
    \/ \E chef \in PublishingChefs, oid \in OrderKeys, s \in OrderStatus :
          Idle /\ change_status_load(chef, oid, s)
    \/ \E l \in inflight : change_status_commit(l)
    \/ \E cust \in Placers, oid \in OrderKeys :
          Idle /\ cancel_order_by_customer_load(cust, oid)
    \/ \E l \in inflight : cancel_order_by_customer_commit(l)
    \/ \E chef \in PublishingChefs, oid \in OrderKeys : cancel_order(chef, oid)
    \/ \E chef \in PublishingChefs, oid \in OrderKeys : assign_order(chef, oid)
    \/ \E chef \in PublishingChefs, oid \in OrderKeys : unassign_order(chef, oid)

SpecMenu == Init /\ [][NextMenu]_vars

\* the transitions asked for while earlier ones are still publishing
OverlappingTargets == {"accepted", "cooking", "ready"}

\* the service with subscribers of the order, where a transition is asked for
\* as soon as the one before has committed: change_status awaits each
\* send_json of its broadcasts (manager.py:18-19), and a request that arrives
\* meanwhile is served during those awaits
NextPub ==
    \/ \E cust \in Placers, rid \in Restaurants \cap RestaurantInputs :
          Idle /\ create_customer_order(cust, rid, << Item(1, << >>, 1) >>)
    \/ \E chef \in PublishingChefs, oid \in OrderKeys, s \in OverlappingTargets :
          inflight = {} /\ change_status_load(chef, oid, s)
    \/ \E l \in inflight : change_status_commit(l)
    \/ \E t \in sending : send_json(t)
    \/ \E key \in OrderKeys, ws \in WebSockets : connect_order(key, ws)

SpecPub == Init /\ [][NextPub]_vars

(***************************************************************************)
(* The claims                                                              *)
(***************************************************************************)
OrderIds == 1..Len(orders)
SameKitchen(chef, oid) == ChefRestaurant[chef] = orders[oid].restaurant_id
Last(seq) == seq[Len(seq)]

\* the table of the spec's section 4.2 read with ready as terminal
TableReadyTerminal ==
    [s \in OrderStatus |->
        CASE s = "pending"  -> {"accepted", "rejected", "canceled"}
          [] s = "accepted" -> {"cooking", "canceled"}
          [] s = "cooking"  -> {"ready", "canceled"}
          [] OTHER          -> {}]

\* the same table with ready -> completed
TableReadyCompletes ==
    [s \in OrderStatus |->
        IF s = "ready" THEN {"completed"} ELSE TableReadyTerminal[s]]

\* a worker of the order's kitchen gets through exactly with the pairs of T,
\* every other pair is refused as illegal
VerdictsFollow(T) ==
    \A chef \in Chefs, oid \in OrderIds, s \in OrderStatus :
        SameKitchen(chef, oid) =>
            change_status_response(chef, oid, s) =
                IF s \in T[orders[oid].status] THEN "ok" ELSE "400"

\* a request that got through commits its target, a pair of T
CommitsFollow(T) ==
    \A l \in inflight :
        change_status_commit(l) =>
            /\ resp' = "ok"
            /\ orders'[l.oid].status = l.target
            /\ l.target \in T[l.snap.status]

\* C1 (as claimed): change_status succeeds exactly on the pairs of the
\* section 4.2 table in which ready, completed, canceled and rejected have
\* no legal target, and rejects every other pair.
C1_TableWithReadyTerminal ==
    /\ [](VerdictsFollow(TableReadyTerminal))
    /\ [][CommitsFollow(TableReadyTerminal)]_vars

\* C1 (amended): change_status succeeds exactly on the pairs
\* pending -> {accepted, rejected, canceled}, accepted -> {cooking, canceled},
\* cooking -> {ready, canceled}, ready -> {completed}, and rejects every
\* other pair; completed, canceled and rejected have no legal target.
C1_TransitionTable ==
    /\ [](VerdictsFollow(TableReadyCompletes))
    /\ [][CommitsFollow(TableReadyCompletes)]_vars

\* a ready order has been completed through change_status
C1_Witness ==
    /\ resp = "ok"
    /\ \E i \in 1..Len(history) :
          /\ history[i].previous_status = "ready"
          /\ history[i].new_status = "completed"
          /\ orders[history[i].order_id].status = "completed"

\* every request that would change the status of an order whose status is
\* in Closed is refused, whoever asks and whatever the target
AllRefused(Closed) ==
    \A oid \in OrderIds :
        orders[oid].status \in Closed =>
            /\ \A chef \in Chefs, s \in OrderStatus :
                  change_status_response(chef, oid, s) \in Failures
            /\ \A cust \in Customers :
                  cancel_order_by_customer_response(cust, oid) \in Failures
            /\ LET order == get_order_items_with_name(oid)
               IN /\ \A st \in OrderStatus :
                        _ensure_status(order, {st}) \in Failures
                  /\ cancel_order_response(order) \in Failures

\* a refused request leaves every order's status as it was
RefusalKeepsStatus ==
    resp' \in Failures =>
        \A oid \in OrderIds : orders'[oid].status = orders[oid].status

\* C2 (as claimed): an order in ready, completed, canceled or rejected has no
\* outbound transition: every transition request on it is rejected and its
\* status stays as it was.
C2_FourTerminalStates ==
    /\ [](AllRefused({"ready", "completed", "canceled", "rejected"}))
    /\ [][RefusalKeepsStatus]_vars

\* C2 (amended): an order in completed, canceled or rejected has no outbound
\* transition: every transition request on it is rejected and its status stays
\* as it was; a ready order has exactly one, to completed.
C2_TerminalNoOutbound ==
    /\ [](AllRefused({"completed", "canceled", "rejected"}))
    /\ [](\A oid \in OrderIds :
            orders[oid].status = "ready" =>
                {s \in OrderStatus :
                    \E chef \in Chefs : change_status_response(chef, oid, s) = "ok"}
                = {"completed"})
    /\ [][RefusalKeepsStatus]_vars

\* a transition was asked of a completed order and refused
C2_Witness ==
    /\ resp = "400"
    /\ \E oid \in OrderIds : orders[oid].status = "completed"

\* C10: a transition request that fails (order not found, worker of another
\* kitchen, illegal transition, or a worker operation that raises) changes
\* nothing: orders, Status History, Activity Log and published events are as
\* before.
C10_FailedRequestMutatesNothing ==
    [][resp' \in {"404", "403", "400", "AttributeError"} =>
          UNCHANGED <<orders, history, activity, events>>]_vars

\* an illegal transition was refused on an order that is under way
C10_Witness ==
    /\ resp = "400"
    /\ \E oid \in OrderIds :
          /\ orders[oid].status = "cooking"
          /\ orders[oid].assigned_chef_id # NULL
          /\ Len(HistoryOf(oid)) = 3

\* C3: an order's status is always one of the seven states, and every change
\* of it, by whichever operation, is a pair of the allowed-transition table.
C3_OnlyTableTransitions ==
    /\ [](\A oid \in OrderIds : orders[oid].status \in OrderStatus)
    /\ [][\A oid \in OrderIds :
            orders'[oid].status # orders[oid].status =>
                orders'[oid].status \in TableReadyCompletes[orders[oid].status]]_vars

\* C4: of two transition calls in progress at the same time that read the
\* same source status of an order, one succeeds: a call does not commit once
\* a call that read the same source status has committed after its read, so
\* the history grows by one entry, not two.
C4_ConcurrentTransitionsOneWins ==
    [][\A m \in inflight :
          change_status_commit(m) =>
              LET H == HistoryOf(m.oid)
              IN ~ \E i \in (m.hlen + 1)..Len(H) :
                     H[i].previous_status = m.snap.status]_vars

\* C5: the Status History of every order, in timestamp order, has
\* non-decreasing timestamps, starts with previous status none, and each
\* later entry's previous status is the new status of the entry before it.
C5_HistoryChain ==
    \A oid \in OrderIds :
        LET H == status_history(oid)
        IN /\ Len(H) >= 1
           /\ H[1].previous_status = "none"
           /\ \A i \in 2..Len(H) :
                 /\ H[i - 1].timestamp <= H[i].timestamp
                 /\ H[i].previous_status = H[i - 1].new_status

\* C6: the new status of an order's last history entry is the order's current
\* status, and the history has one entry for the placement and one for each
\* status change.
C6_HistoryReplaysStatus ==
    /\ [](\A oid \in OrderIds :
            Last(status_history(oid)).new_status = orders[oid].status)
    /\ [][\A oid \in OrderIds :
            Len(SelectSeq(history', LAMBDA h : h.order_id = oid)) =
                Len(HistoryOf(oid))
                + (IF orders'[oid].status # orders[oid].status THEN 1 ELSE 0)]_vars

\* what a step of the worker's happy path has to do
StepDone(oid, to, stamp) ==
    /\ resp' = "ok"
    /\ orders'[oid].status = to
    /\ orders'[oid][stamp] # NULL
    /\ Len(SelectSeq(history', LAMBDA h : h.order_id = oid)) = Len(HistoryOf(oid)) + 1

\* C7: on a freshly placed order, accept, start_cooking, mark_ready and
\* complete by a worker of the order's kitchen each succeed, the last one
\* leaves the order completed with a history of 5 entries and accepted_at,
\* cooking_at, ready_at and completed_at set.
C7_HappyPath ==
    [][\A chef \in Chefs, oid \in OrderIds :
          SameKitchen(chef, oid) =>
              /\ (accept_order(chef, oid) /\ orders[oid].status = "pending")
                    => StepDone(oid, "accepted", "accepted_at")
              /\ (start_cooking(chef, oid) /\ orders[oid].status = "accepted")
                    => StepDone(oid, "cooking", "cooking_at")
              /\ (mark_ready(chef, oid) /\ orders[oid].status = "cooking")
                    => StepDone(oid, "ready", "ready_at")
              /\ (complete_order(chef, oid) /\ orders[oid].status = "ready")
                    => /\ StepDone(oid, "completed", "completed_at")
                       /\ Len(HistoryOf(oid)) = 4 =>
                             /\ orders'[oid].accepted_at # NULL
                             /\ orders'[oid].cooking_at # NULL
                             /\ orders'[oid].ready_at # NULL]_vars

\* C8: reject on a pending order succeeds and leaves it rejected; accept on a
\* rejected order fails as an illegal transition and leaves it rejected.
C8_RejectThenAccept ==
    [][\A chef \in Chefs, oid \in OrderIds :
          SameKitchen(chef, oid) =>
              /\ (reject_order(chef, oid) /\ orders[oid].status = "pending")
                    => (resp' = "ok" /\ orders'[oid].status = "rejected")
              /\ (accept_order(chef, oid) /\ orders[oid].status = "rejected")
                    => (resp' = "400" /\ orders'[oid].status = "rejected")]_vars

\* C9: assign on an unassigned order makes the caller the holder; assign by
\* another worker fails and unassign by a worker who is not the holder (or
\* with no holder) fails, both leaving the holder; unassign by the holder
\* leaves the order unassigned.
C9_AssignProtocol ==
    [][\A chef \in Chefs, oid \in OrderIds :
          LET holder == orders[oid].assigned_chef_id
          IN /\ (assign_order(chef, oid) /\ holder = NULL)
                   => (resp' = "ok" /\ orders'[oid].assigned_chef_id = chef)
             /\ (assign_order(chef, oid) /\ holder \notin {NULL, chef})
                   => (resp' = "400" /\ orders'[oid].assigned_chef_id = holder)
             /\ (unassign_order(chef, oid) /\ holder # chef)
                   => (resp' = "403" /\ orders'[oid].assigned_chef_id = holder)
             /\ (unassign_order(chef, oid) /\ holder = chef)
                   => (resp' = "ok" /\ orders'[oid].assigned_chef_id = NULL)]_vars

\* C11: a status-changing request by a worker whose kitchen is not the order's
\* kitchen fails with the authorization error (403) and leaves the order as it
\* was: for change_status and for accept, start_cooking, mark_ready, complete,
\* cancel and reject.
C11_KitchenMismatchRefused ==
    /\ [](\A chef \in Chefs, oid \in OrderIds, s \in OrderStatus :
            ~SameKitchen(chef, oid) => change_status_response(chef, oid, s) = "403")
    /\ [][\A chef \in Chefs, oid \in OrderIds :
            (/\ ~SameKitchen(chef, oid)
             /\ \/ \E s \in OrderStatus : change_status_load(chef, oid, s)
                \/ accept_order(chef, oid)
                \/ start_cooking(chef, oid)
                \/ mark_ready(chef, oid)
                \/ complete_order(chef, oid)
                \/ cancel_order(chef, oid)
                \/ reject_order(chef, oid))
            => (resp' = "403" /\ orders' = orders)]_vars

\* C12: when a transition by worker W has succeeded, the order's
\* assigned-worker reference is W, whoever held the order before.
C12_ActorTakesOwnership ==
    [][\A l \in inflight :
          change_status_commit(l) => orders'[l.oid].assigned_chef_id = l.chef]_vars

\* the broadcasts made since the log of broadcasts had elen entries are the
\* two of one event of the transition of order oid to target: the same
\* message, of the kind the target asks for, to the order's key and to its
\* kitchen's key; and every connection that registered under one of the keys
\* before the broadcast and is live has received it
Announced(oid, target, elen) ==
    LET calls == SubSeq(events', elen + 1, Len(events'))
    IN /\ Len(calls) = 2
       /\ calls[1].msg = calls[2].msg
       /\ calls[1].msg.event = IF target = "canceled" THEN "order_canceled"
                                                      ELSE "order_status_update"
       /\ calls[1].msg.order_id = oid
       /\ calls[1].scope = "order" /\ calls[1].key = oid
       /\ calls[2].scope = "restaurant" /\ calls[2].key = orders'[oid].restaurant_id
       /\ \A i \in (elen + 1)..Len(events'), ws \in WebSockets :
             (/\ conn'[ws].state = "open"
              /\ conn'[ws].scope = events'[i].scope
              /\ conn'[ws].key = events'[i].key
              /\ conn'[ws].since < i)
             => IsIn(delivered'[ws], i)

SendFails(t) == send_json(t) /\ conn[Head(t.todo)].state # "open"

\* C14: a broadcast delivers its message to every live connection registered
\* for the key, also when the delivery to another connection of the key
\* fails: after a failed send the live connections that were still to be
\* served have the message or are still being served.
C14_FailureDoesNotStopDelivery ==
    [][\A t \in sending :
          SendFails(t) =>
              \A i \in 2..Len(t.todo) :
                  conn[t.todo[i]].state = "open" =>
                      \/ IsIn(delivered'[t.todo[i]], t.idx)
                      \/ \E u \in sending' :
                            u.idx = t.idx /\ IsIn(u.todo, t.todo[i])]_vars

\* C15: a delivery failure is never surfaced to the publishing action: the
\* handler whose send failed does not end with that error, and when the
\* failed send was order-scoped the kitchen-scoped broadcast of the event is
\* still made.
C15_DeliveryFailureNotSurfaced ==
    [][\A t \in sending :
          SendFails(t) =>
              /\ resp' # "SendError"
              /\ t.rest # << >> =>
                    \/ Len(events') > Len(events)
                    \/ \E u \in sending' : u.rest = t.rest]_vars

\* C16: unsubscribe of a connection that is not registered under the key
\* (never was, is no longer, or the key never had a subscriber) completes
\* without error and leaves the registry as it is, for both registries.
C16_UnsubscribeIdempotent ==
    \A key \in OrderIdInputs, ws \in WebSockets :
        /\ ~IsIn(Get(order_clients, key), ws) =>
              /\ disconnect_order(key, ws).raised = "none"
              /\ disconnect_order(key, ws).clients = order_clients
        /\ ~IsIn(Get(chef_clients, key), ws) =>
              /\ disconnect_chef_restaurant(key, ws).raised = "none"
              /\ disconnect_chef_restaurant(key, ws).clients = chef_clients

\* C17: no delivery is made to a connection after that connection's
\* unsubscribe has completed: a broadcast never sends to a connection that
\* has been unregistered.
C17_NoDeliveryAfterUnsubscribe ==
    [][\A t \in sending :
          send_json(t) => conn[Head(t.todo)].state # "gone"]_vars

\* C18: no queuing or replay: what a connection received was broadcast to its
\* key after the connection registered, and it received every broadcast at
\* most once.
C18_NoReplayAtMostOnce ==
    \A ws \in WebSockets :
        \A j \in 1..Len(delivered[ws]) :
            LET i == delivered[ws][j]
            IN /\ i > conn[ws].since
               /\ events[i].scope = conn[ws].scope
               /\ events[i].key = conn[ws].key
               /\ \A k \in 1..Len(delivered[ws]) : k # j => delivered[ws][k] # i

\* a connection that registered after a broadcast to its key has received a
\* later broadcast
C18_Witness ==
    \E ws \in WebSockets :
        /\ delivered[ws] # << >>
        /\ \E i \in 1..conn[ws].since :
              events[i].scope = conn[ws].scope /\ events[i].key = conn[ws].key

\* C19: a connection to which a delivery failed is pruned: after the failed
\* send it is in no registry, and the publish does not fail because of it.
C19_FailedConnectionPruned ==
    [][\A t \in sending :
          SendFails(t) =>
              /\ \A key \in OrderKeys : ~IsIn(Get(order_clients', key), Head(t.todo))
              /\ \A key \in RestaurantKeys : ~IsIn(Get(chef_clients', key), Head(t.todo))
              /\ resp' # "SendError"]_vars

\* C20: a placed order starts pending, with the four stage timestamps unset
\* and no assigned worker, and with exactly one Status History entry (none ->
\* pending, no acting worker) that is committed with it: no order is ever
\* without its first history entry.
C20_PlacementInitialState ==
    /\ [](\A oid \in OrderIds :
            /\ Len(HistoryOf(oid)) >= 1
            /\ HistoryOf(oid)[1].previous_status = "none"
            /\ HistoryOf(oid)[1].new_status = "pending"
            /\ HistoryOf(oid)[1].changed_by_chef_id = NULL)
    /\ [][Len(orders') > Len(orders) =>
            LET o == orders'[Len(orders')]
            IN /\ Len(orders') = Len(orders) + 1
               /\ o.id = Len(orders')
               /\ o.status = "pending"
               /\ o.accepted_at = NULL /\ o.cooking_at = NULL
               /\ o.ready_at = NULL /\ o.completed_at = NULL
               /\ o.assigned_chef_id = NULL
               /\ Len(o.items) >= 1
               /\ Len(SelectSeq(history', LAMBDA h : h.order_id = o.id)) = 1]_vars

\* an order has just been placed
C20_Witness ==
    /\ resp = "ok"
    /\ Len(orders) = 1
    /\ orders[1].status = "pending"
    /\ Len(history) = 1
    /\ Len(orders[1].items) = 2

\* the sum over the lines of unit price x quantity
RECURSIVE LineSum(_)
LineSum(lines) ==
    IF lines = << >> THEN 0
    ELSE Head(lines).unit_price * Head(lines).quantity + LineSum(Tail(lines))

\* C21: the total of a placed order is the sum over its lines of unit price x
\* quantity, the unit price being the menu price at placement; and after
\* placement no step (a change of a menu price, a transition, an assign, an
\* unassign, a cancel) changes the order's total or its lines.
C21_TotalFrozen ==
    /\ [](\A oid \in OrderIds :
            /\ orders[oid].total_amount = LineSum(orders[oid].items)
            /\ \A i \in 1..Len(orders[oid].items) :
                  orders[oid].items[i].total_price =
                      orders[oid].items[i].unit_price * orders[oid].items[i].quantity)
    /\ [][Len(orders') > Len(orders) =>
            \A i \in 1..Len(orders'[Len(orders')].items) :
                LET line == orders'[Len(orders')].items[i]
                IN line.unit_price = menu_items[line.menu_item_id].price]_vars
    /\ [][\A oid \in OrderIds :
            /\ orders'[oid].total_amount = orders[oid].total_amount
            /\ orders'[oid].items = orders[oid].items]_vars

\* an order of two lines has been transitioned and canceled after the price
\* of one of its items was changed
C21_Witness ==
    \E oid \in OrderIds :
        /\ orders[oid].status = "canceled"
        /\ orders[oid].accepted_at # NULL
        /\ Len(orders[oid].items) = 2
        /\ \E i \in 1..Len(orders[oid].items) :
              orders[oid].items[i].unit_price #
                  menu_items[orders[oid].items[i].menu_item_id].price

\* C22: a placement succeeds only if the kitchen exists, the item list is not
\* empty and every line's menu item exists and belongs to the order's
\* kitchen: no order is created with a line of another kitchen's item,
\* whether the request gave the item by id or by name.
C22_PlacementPreconditions ==
    [][Len(orders') > Len(orders) =>
          LET o == orders'[Len(orders')]
          IN /\ o.restaurant_id \in Restaurants
             /\ Len(o.items) >= 1
             /\ \A i \in 1..Len(o.items) :
                   /\ o.items[i].menu_item_id \in MenuItemIds
                   /\ MenuRestaurant[o.items[i].menu_item_id] = o.restaurant_id]_vars

\* the broadcasts made since the log of broadcasts had elen entries are the
\* one "new order" event of order oid, to the key of the order's kitchen; the
\* order is committed; and every live connection that registered under that
\* key before the broadcast has received it
NewOrderAnnounced(oid, elen) ==
    /\ Len(events') = elen + 1
    /\ oid \in 1..Len(orders')
    /\ LET e == events'[elen + 1]
       IN /\ e.msg.event = "new_order"
          /\ e.msg.order_id = oid
          /\ e.scope = "restaurant"
          /\ e.key = orders'[oid].restaurant_id
          /\ \A ws \in WebSockets :
                (/\ conn'[ws].state = "open"
                 /\ conn'[ws].scope = "restaurant"
                 /\ conn'[ws].key = e.key
                 /\ conn'[ws].since < elen + 1)
                => IsIn(delivered'[ws], elen + 1)

Logged(chef, oid) ==
    /\ Len(activity') = Len(activity) + 1
    /\ SubSeq(activity', 1, Len(activity)) = activity
    /\ Last(activity').restaurant_id = orders[oid].restaurant_id
    /\ Last(activity').chef_id = chef
    /\ Last(activity').order_id = oid
    /\ Last(activity').action # NULL

\* C24: every successful status transition appends exactly one Activity Log
\* entry naming the action, with the order's kitchen id, the acting worker
\* and the order id, in the commit of the status change: for change_status
\* and for each worker status operation.
C24_TransitionLogsActivity ==
    [][/\ \A l \in inflight : change_status_commit(l) => Logged(l.chef, l.oid)
       /\ \A chef \in Chefs, oid \in OrderIds :
             (/\ resp' = "ok"
              /\ \/ accept_order(chef, oid)
                 \/ start_cooking(chef, oid)
                 \/ mark_ready(chef, oid)
                 \/ complete_order(chef, oid)
                 \/ cancel_order(chef, oid)
                 \/ reject_order(chef, oid))
             => Logged(chef, oid)]_vars

C26_TerminalAbsorbing ==
    [][\A oid \in OrderIds :
          orders[oid].status \in {"completed", "canceled", "rejected"} =>
              /\ oid \in 1..Len(orders')
              /\ orders'[oid].status = orders[oid].status]_vars

\* C27: every committed change of an order's status, whichever operation made
\* it, comes with an event published to the subscribers of the order and to
\* the subscribers of its kitchen: the handler that commits the change makes
\* the two broadcasts before it returns (with no connection registered, in
\* the step of its commit).
C27_StatusChangePublishes ==
    [][\A oid \in OrderIds :
          orders'[oid].status # orders[oid].status =>
              \E i \in (Len(events) + 1)..Len(events'),
                 j \in (Len(events) + 1)..Len(events') :
                  /\ events'[i].scope = "order"
                  /\ events'[i].key = oid
                  /\ events'[j].scope = "restaurant"
                  /\ events'[j].key = orders[oid].restaurant_id
                  /\ events'[i].msg.order_id = oid
                  /\ events'[j].msg.order_id = oid]_vars

\* the transition a status event reports is committed: the history has its
\* row
Committed(e) ==
    \E i \in 1..Len(history) :
        /\ history[i].order_id = e.msg.order_id
        /\ history[i].new_status = IF e.msg.event = "order_canceled"
                                   THEN "canceled" ELSE e.msg.status
        /\ history[i].previous_status # "none"

\* C28: publish happens strictly after commit: every status event broadcast,
\* and so every one delivered to a subscriber, reports a transition that is
\* committed; and a transition whose commit fails publishes no event,
\* changes no order, appends no history entry, ends with the error and is
\* not retried (its handler is gone and no other has taken its place).
C28_PublishAfterCommit ==
    /\ [](\A i \in 1..Len(events) :
            events[i].msg.event \in {"order_status_update", "order_canceled"}
                => Committed(events[i]))
    /\ [](\A ws \in WebSockets :
            \A j \in 1..Len(delivered[ws]) :
                /\ delivered[ws][j] \in 1..Len(events)
                /\ events[delivered[ws][j]].msg.event # "new_order"
                       => Committed(events[delivered[ws][j]]))
    /\ [][\A l \in inflight :
            change_status_commit_fails(l) =>
                /\ UNCHANGED <<orders, history, activity, events, delivered, sending>>
                /\ inflight' = inflight \ {l}
                /\ resp' = "CommitError"]_vars

\* the commit of a transition has failed on an order whose earlier
\* transition is with a subscriber
C28_Witness ==
    /\ resp = "CommitError"
    /\ Len(orders) = 1
    /\ orders[1].status = "accepted"
    /\ Len(history) = 2
    /\ \E ws \in WebSockets :
          \E j \in 1..Len(delivered[ws]) :
              events[delivered[ws][j]].msg.event = "order_status_update"

StageColumns == {"accepted_at", "cooking_at", "ready_at", "completed_at"}

\* the stage timestamp the spec gives a target status
StageOf(target) ==
    CASE target = "accepted"  -> "accepted_at"
      [] target = "cooking"   -> "cooking_at"
      [] target = "ready"     -> "ready_at"
      [] target = "completed" -> "completed_at"
      [] OTHER                -> "none"

\* C29: a successful transition to accepted, cooking, ready or completed sets
\* the stage timestamp of the target status to the transition time (the time
\* the transition read) and leaves the other three stage timestamps as they
\* were; a transition to canceled or rejected changes no stage timestamp.
C29_StageTimestamps ==
    /\ [][\A l \in inflight :
            change_status_commit(l) =>
                \A col \in StageColumns :
                    orders'[l.oid][col] =
                        IF StageOf(l.target) = col THEN l.now ELSE orders[l.oid][col]]_vars
    /\ [](\A oid \in OrderIds, s \in OrderStatus, col \in StageColumns :
            _set_status_fields(orders[oid], s)[col] =
                IF StageOf(s) = col THEN clock ELSE orders[oid][col])

\* an order has gone through the four stages, each stamped in its turn
C29_Witness ==
    /\ resp = "ok"
    /\ \E oid \in OrderIds :
          /\ orders[oid].status = "completed"
          /\ orders[oid].accepted_at = 2
          /\ orders[oid].cooking_at = 3
          /\ orders[oid].ready_at # NULL
          /\ orders[oid].completed_at # NULL

\* the statuses an error's detail names
Named(detail) == {detail[i] : i \in 1..Len(detail)} \cap OrderStatus

\* C30: the error of an illegal transition names the allowed set: for every
\* illegal (current, target) pair the statuses the error carries are the
\* targets that are legal from the order's current status.
C30_IllegalTransitionNamesAllowed ==
    \A chef \in Chefs, oid \in OrderIds, s \in OrderStatus :
        change_status_response(chef, oid, s) = "400" =>
            LET e == illegal_transition(orders[oid].status, s)
            IN /\ e.status_code = "400"
               /\ Named(e.detail) = TableReadyCompletes[orders[oid].status]

\* C31: every event published for a transition carries the event name, the
\* order id, the kitchen id and the new status, and a cancellation event
\* carries a reason field besides; the same payload goes to the order's key
\* and to the kitchen's key; and publishing changes no order.
C31_EventPayload ==
    /\ [](\A i \in 1..Len(events) :
            LET msg == events[i].msg
            IN msg.event \in {"order_status_update", "order_canceled"} =>
                   /\ msg.order_id \in OrderIds
                   /\ msg.restaurant_id = orders[msg.order_id].restaurant_id
                   /\ msg.status \in OrderStatus
                   /\ msg.event = "order_canceled" => "reason" \in DOMAIN msg)
    /\ [][\A l \in inflight :
            change_status_commit(l) =>
                /\ Len(events') = Len(events) + 2
                /\ events'[Len(events) + 1].msg = events'[Len(events) + 2].msg
                /\ events'[Len(events) + 1].scope = "order"
                /\ events'[Len(events) + 2].scope = "restaurant"]_vars
    /\ [][\A t \in sending : send_json(t) => orders' = orders]_vars

\* C32: the two registries are independent: subscribe and unsubscribe on an
\* order id leave the kitchen registry as it is and the other way round,
\* publish changes neither registry, and a broadcast to an order id is
\* received by connections of the order registry only, a broadcast to a
\* kitchen id by connections of the kitchen registry only, also when the
\* order id and the kitchen id are the same number.
C32_RegistriesIndependent ==
    /\ [][/\ \A key \in OrderKeys, ws \in WebSockets :
                connect_order(key, ws) => chef_clients' = chef_clients
          /\ \A key \in RestaurantKeys, ws \in WebSockets :
                connect_chef_restaurant(key, ws) => order_clients' = order_clients
          /\ \A ws \in WebSockets :
                /\ ws_order(ws) => chef_clients' = chef_clients
                /\ ws_chef_orders(ws) => order_clients' = order_clients
          /\ Len(events') > Len(events) =>
                UNCHANGED <<order_clients, chef_clients>>
          /\ delivered' # delivered =>
                UNCHANGED <<order_clients, chef_clients>>]_vars
    /\ [](\A ws \in WebSockets :
            /\ \A key \in DOMAIN order_clients :
                  IsIn(order_clients[key], ws) =>
                      conn[ws].scope = "order" /\ conn[ws].key = key
            /\ \A key \in DOMAIN chef_clients :
                  IsIn(chef_clients[key], ws) =>
                      conn[ws].scope = "restaurant" /\ conn[ws].key = key
            /\ \A j \in 1..Len(delivered[ws]) :
                  events[delivered[ws][j]].scope = conn[ws].scope)

\* an order subscriber and a kitchen subscriber under the same number, both
\* live since before the order was placed: the kitchen subscriber has the new
\* order and the transition, the order subscriber the transition alone
C32_Witness ==
    \E w \in WebSockets, v \in WebSockets :
        /\ conn[w].scope = "order" /\ conn[w].key = 1 /\ conn[w].since = 0
        /\ conn[v].scope = "restaurant" /\ conn[v].key = 1 /\ conn[v].since = 0
        /\ delivered[v] = << 1, 3 >>
        /\ delivered[w] = << 2 >>
        /\ events[1].msg.event = "new_order"

\* the connection is in a list of one of the two registries
Registered(ws) ==
    \/ \E key \in DOMAIN order_clients : IsIn(order_clients[key], ws)
    \/ \E key \in DOMAIN chef_clients : IsIn(chef_clients[key], ws)

\* C33: a connection whose client has gone away is eventually out of its
\* registry, also one on which a broadcast's send has just failed; no
\* connection stays registered forever after its client went away.
C33_DisconnectedEventuallyRemoved ==
    /\ \A ws \in WebSockets :
          (conn[ws].state = "dead" /\ Registered(ws)) ~> ~Registered(ws)
    /\ \A ws \in WebSockets :
          (resp = "SendError" /\ conn[ws].state = "dead") ~> ~Registered(ws)
    /\ \A ws \in WebSockets :
          ~<>[](conn[ws].state \in {"dead", "gone"} /\ Registered(ws))

\* a connection that received an event, lost its client and is out of the
\* registries, while the other connection is still registered
C33_Witness ==
    \E ws \in WebSockets, other \in WebSockets :
        /\ conn[ws].state = "gone"
        /\ ~Registered(ws)
        /\ delivered[ws] # << >>
        /\ conn[other].state = "open"
        /\ Registered(other)

\* the columns of an order other than the assigned-worker reference
OtherColumns(oid) == DOMAIN orders[oid] \ {"assigned_chef_id"}

\* C34: an assign or an unassign, whether it succeeds or fails, leaves the
\* status, the stage timestamps and every other column of every order but the
\* assigned-worker reference, the Status History, the broadcast log and the
\* deliveries unchanged; one that fails leaves the orders unchanged altogether.
C34_AssignChangesOnlyHolder ==
    [][\A chef \in Chefs, oid \in OrderIdInputs :
          (assign_order(chef, oid) \/ unassign_order(chef, oid)) =>
              /\ Len(orders') = Len(orders)
              /\ \A o \in OrderIds : \A col \in OtherColumns(o) :
                    orders'[o][col] = orders[o][col]
              /\ history' = history
              /\ events' = events
              /\ delivered' = delivered
              /\ sending' = sending
              /\ resp' # "ok" => orders' = orders]_vars

\* an assign or unassign has just been refused on an accepted order that has
\* a holder (a worker operation ended with the loader's error)
C34_Witness ==
    /\ resp = "AttributeError"
    /\ \E oid \in OrderIds :
          /\ orders[oid].status = "accepted"
          /\ orders[oid].assigned_chef_id # NULL
          /\ orders[oid].accepted_at # NULL

C36_HolderOfOrdersKitchen ==
    /\ [](\A oid \in OrderIds :
            orders[oid].assigned_chef_id # NULL =>
                /\ orders[oid].assigned_chef_id \in Chefs
                /\ ChefRestaurant[orders[oid].assigned_chef_id] =
                       orders[oid].restaurant_id)
    /\ [][\A chef \in Chefs, oid \in OrderIds :
            (/\ ChefRestaurant[chef] # orders[oid].restaurant_id
             /\ assign_order(chef, oid) \/ unassign_order(chef, oid))
                => (resp' # "ok" /\ orders' = orders)]_vars

\* an order in cooking held by the second worker of its kitchen, on which a
\* worker operation has just been refused
C36_Witness ==
    /\ resp = "AttributeError"
    /\ \E oid \in OrderIds :
          /\ orders[oid].status = "cooking"
          /\ orders[oid].assigned_chef_id = 2
          /\ orders[oid].restaurant_id = ChefRestaurant[2]
          /\ \E chef \in Chefs : ChefRestaurant[chef] # orders[oid].restaurant_id

\* the stage timestamps a status requires, in the order of the happy path
StampsOf ==
    [s \in OrderStatus |->
        CASE s = "cooking"   -> {"accepted_at", "cooking_at"}
          [] s = "ready"     -> {"accepted_at", "cooking_at", "ready_at"}
          [] s = "completed" -> {"accepted_at", "cooking_at", "ready_at",
                                 "completed_at"}
          [] OTHER           -> {}]

\* the order has a history row that enters the stage of the column
Entered(oid, col) ==
    \E i \in 1..Len(history) :
        /\ history[i].order_id = oid
        /\ StageOf(history[i].new_status) = col

\* C37: in every reachable state an order in cooking has accepted_at and
\* cooking_at, an order in ready has ready_at as well, a completed order has
\* all four stage timestamps, and a stage timestamp is set only on an order
\* that has entered the stage.
C37_StampsConsistentWithStatus ==
    \A oid \in OrderIds :
        /\ \A col \in StampsOf[orders[oid].status] : orders[oid][col] # NULL
        /\ \A col \in StageColumns : orders[oid][col] # NULL => Entered(oid, col)

\* a completed order with its four stage timestamps
C37_Witness ==
    \E oid \in OrderIds :
        /\ orders[oid].status = "completed"
        /\ \A col \in StageColumns : orders[oid][col] # NULL
        /\ \A col \in StageColumns : Entered(oid, col)

C38_LifecycleTerminates ==
    \A oid \in OrderIds :
        LET H == HistoryOf(oid)
        IN /\ Len(SelectSeq(H, LAMBDA h : h.previous_status # "none")) <= 4
           /\ Len(H) <= 5
           /\ \A i \in 1..Len(H), j \in 1..Len(H) :
                 H[i].new_status = H[j].new_status => i = j

\* C40: every subscriber of an order receives the order's status events in
\* the order in which the transitions were committed (the order of the
\* broadcast log); the status carried by a status event is the target of the
\* transition that published it; and when no request is being served and no
\* publish is under way, the last event a live subscriber of the order has
\* received carries the order's current status.
C40_EventsInCommitOrder ==
    /\ [](\A ws \in WebSockets :
            conn[ws].scope = "order" =>
                \A i \in 1..Len(delivered[ws]), j \in 1..Len(delivered[ws]) :
                    i < j => delivered[ws][i] < delivered[ws][j])
    /\ [][\A l \in inflight :
            (change_status_commit(l) /\ l.target # "canceled") =>
                events'[Len(events) + 1].msg.status = l.target]_vars
    /\ [](\A ws \in WebSockets :
            (/\ inflight = {} /\ sending = {}
             /\ conn[ws].state = "open" /\ conn[ws].scope = "order"
             /\ delivered[ws] # << >>)
                => events[Last(delivered[ws])].msg.status =
                       orders[conn[ws].key].status)

====
